---- MODULE Spec2Model ----
(***************************************************************************)
(* Authentication core of the multivendor ERP backend:                     *)
(*   - the login flow of AuthController and of MainController, with the    *)
(*     lockout counter of the User model;                                  *)
(*   - the bearer-token middleware (AuthMiddleware) with its revocation    *)
(*     store and the role / permission gates;                              *)
(*   - the session endpoints of both controllers: refresh, logout,         *)
(*     forgotPassword and resetPassword.                                   *)
(* Time is counted in hours: Date.now() is `now`, one-hour durations are 1.*)
(***************************************************************************)
EXTENDS Integers, Sequences, FiniteSets, TLC

VARIABLES
    now,        \* Date.now(), in hours
    users,      \* the users collection: email -> stored document
    last,       \* the last login request and its response
    run,        \* ghost: consecutive wrong-password AuthController logins since a clean state
    runEnd,     \* ghost: time of the fifth failure of that run
    pc,         \* concurrent login requests: position of each request
    copy,       \* concurrent login requests: the document each request loaded
    handlerOf,  \* concurrent login requests: the controller serving each request
    failed,     \* ghost: how many requests executed incrementLoginAttempts
    init0,      \* ghost: loginAttempts stored before the concurrent requests
    redisClient,\* whether REDIS_URL was set when the middleware was constructed
    blacklist,  \* the revocation store: set of [key, until] entries
    mw,         \* the last middleware call and what it did to req / res / next
    nodeEnv,    \* process.env.NODE_ENV
    jar,        \* the client's refreshToken cookie
    sess,       \* the last session request (login, refresh, logout, reset) and its response
    entropy,    \* crypto.randomBytes: the next fresh reset token
    spent,      \* ghost: the reset tokens that have completed a reset
    databaseService, \* the DatabaseService instance, the process and its connect() calls
    order       \* an Order document

vars == <<now, users, last, run, runEnd, pc, copy, handlerOf, failed, init0,
          redisClient, blacklist, mw, nodeEnv, jar, sess, entropy, spent,
          databaseService, order>>

loginVars == <<users, last, run, runEnd>>
raceVars  == <<pc, copy, handlerOf, failed, init0>>
mwVars    == <<redisClient, blacklist, mw>>
sessVars  == <<jar, sess, entropy, spent>>
appVars   == <<databaseService, order>>

----------------------------------------------------------------------------
(* Bounds *)

MaxTime == 3
MaxAttempts == 7
NumRequests == 3
MaxRevoked == 1

(* Program constants, in hours *)

MaxLoginAttempts == 5
LockTime == 1
AccessExpiry == 1
RefreshExpiry == 168
MaxAge == 1
RevokeTTL == 24

(* A Date field that holds no value (undefined) *)
NoDate == -1

Undefined == "undefined"

----------------------------------------------------------------------------
(* Data *)

StoredEmail  == "a@x.com"
UnknownEmail == "b@x.com"
Emails == {StoredEmail, UnknownEmail}

GoodPassword == "Secret123!"
Passwords == {GoodPassword, "wrong"}

Roles == {"user", "admin", "manager"}

\* bcrypt.hash / bcrypt.compare: the hash is a one-way image of the password
Hash(pw) == <<"bcrypt", pw>>

\* obj.field of a JavaScript object: undefined when the field is absent
Get(obj, f) == IF f \in DOMAIN obj THEN obj[f] ELSE Undefined

\* crypto.createHash('sha256').update(token).digest('hex')
Sha256(token) == <<"sha256", token>>

\* a reset-token field that holds no value (undefined)
NoHash == <<>>

NewUser(role) ==
    [_id |-> "u1", email |-> StoredEmail, password |-> Hash(GoodPassword),
     role |-> role, loginAttempts |-> 0, lockUntil |-> NoDate, lastLogin |-> NoDate,
     passwordChangedAt |-> NoDate,
     resetPasswordToken |-> NoHash, resetPasswordExpires |-> NoDate]

\* User.findOne({ email }): the stored document, or null
NoUser == [_id |-> "null"]
findOne(db, email) == IF email \in DOMAIN db THEN db[email] ELSE NoUser

\* user.isLocked(): lockUntil is set and in the future
isLocked(user, t) == user.lockUntil # NoDate /\ user.lockUntil > t

\* user.comparePassword(candidate)
comparePassword(user, candidate) == Hash(candidate) = user.password

\* incrementLoginAttempts locking one attempt too late (> instead of >=)
incrementLoginAttemptsLate(user, t) ==
    [user EXCEPT !.lockUntil = IF user.loginAttempts + 1 > MaxLoginAttempts
                                THEN t + LockTime ELSE @,
                 !.loginAttempts = @ + 1]

\* incrementLoginAttempts starting a new count once the lock has expired
incrementLoginAttemptsFresh(user, t) ==
    IF user.lockUntil # NoDate /\ user.lockUntil <= t
    THEN [user EXCEPT !.loginAttempts = 1, !.lockUntil = NoDate]
    ELSE [user EXCEPT !.lockUntil = IF user.loginAttempts + 1 >= MaxLoginAttempts
                                     THEN t + LockTime ELSE @,
                      !.loginAttempts = @ + 1]

\* user.incrementLoginAttempts(), on the loaded document
incrementLoginAttempts(user, t) ==
    [user EXCEPT !.lockUntil = IF user.loginAttempts + 1 >= MaxLoginAttempts
                                THEN t + LockTime ELSE @,
                 !.loginAttempts = @ + 1]

\* resetLoginAttempts forgetting to clear the lock
resetLoginAttemptsKeepLock(user) ==
    [user EXCEPT !.loginAttempts = 0]

\* user.resetLoginAttempts(), on the loaded document
resetLoginAttempts(user) ==
    [user EXCEPT !.loginAttempts = 0, !.lockUntil = NoDate]

\* jwt.sign(payload, secret, { expiresIn }): iat and exp are added to the payload
signJWT(payload, secret, expiresIn, t) ==
    [kind |-> "jwt", alg |-> "HS256", key |-> secret,
     payload |-> payload @@ [iat |-> t, exp |-> t + expiresIn]]

\* generateTokens(userId)
generateTokens(userId, t) ==
    [accessToken  |-> signJWT([id |-> userId], "JWT_SECRET", AccessExpiry, t),
     refreshToken |-> signJWT([id |-> userId], "JWT_REFRESH_SECRET", RefreshExpiry, t)]

NoToken == [kind |-> "none"]

----------------------------------------------------------------------------
(* Login requests and responses *)

LoginRequests ==
    [email : Emails, password : Passwords, errors : BOOLEAN]

NodeEnvs == {"production", "development"}

\* the options of res.cookie('refreshToken', ...)
CookieOptions ==
    [httpOnly |-> TRUE, secure |-> (nodeEnv = "production"),
     sameSite |-> "strict", maxAge |-> RefreshExpiry]

NoOptions == [none |-> TRUE]

\* a response: status and message of the JSON body, the access token of the
\* body, the refreshToken cookie it sets with its options, whether it clears
\* that cookie, and the user projection of the body
Response(status, message) ==
    [status |-> status, message |-> message, accessToken |-> NoToken,
     cookie |-> NoToken, cookieOptions |-> NoOptions, clearCookie |-> FALSE,
     user |-> [id |-> Undefined]]

\* res.cookie('refreshToken', ...) followed by res.json({ status: 'success', data })
LoginSuccess(user, tokens) ==
    [status |-> 200, message |-> "success", accessToken |-> tokens.accessToken,
     cookie |-> tokens.refreshToken, cookieOptions |-> CookieOptions,
     clearCookie |-> FALSE,
     user |-> [id |-> user._id, email |-> user.email,
               name |-> Get(user, "name"), role |-> user.role]]

\* document.save(): the paths modified since the document was loaded (or last
\* saved) are written to the stored document; the other paths are left alone
save(db, user, loaded) ==
    [db EXCEPT ![user.email] =
        [f \in DOMAIN @ |-> IF user[f] # loaded[f] THEN user[f] ELSE @[f]]]

\* the responses of AuthController.login
AuthValidationFailed == Response(400, "validation")
AuthNotFound == Response(401, "Invalid credentials")
AuthLocked   == Response(423, "Account is locked. Please try again later.")
\* a wrong-password answer that names the cause
AuthMismatchVerbose == Response(401, "Incorrect password")
AuthMismatch == Response(401, "Invalid credentials")

\* AuthController.login: the response and the collection after the request
AuthLoginResult(db, req, t) ==
    LET user == findOne(db, req.email) IN
    IF req.errors THEN [res |-> AuthValidationFailed, db |-> db]
    ELSE IF user = NoUser THEN [res |-> AuthNotFound, db |-> db]
    ELSE IF isLocked(user, t) THEN [res |-> AuthLocked, db |-> db]
    ELSE IF ~comparePassword(user, req.password)
        THEN [res |-> AuthMismatch,
              db |-> save(db, incrementLoginAttempts(user, t), user)]
    ELSE LET u1 == resetLoginAttempts(user)
             db1 == save(db, u1, user)
             tokens == generateTokens(u1._id, t)
             u2 == [u1 EXCEPT !.lastLogin = t]
         IN [res |-> LoginSuccess(u2, tokens), db |-> save(db1, u2, u1)]

\* MainController.handleError(res, error)
handleError(error) ==
    Response(IF "status" \in DOMAIN error THEN error.status ELSE 500,
             IF "message" \in DOMAIN error THEN error.message ELSE "Internal server error")

\* MainController.login: the response and the collection after the request
MainLoginResult(db, req, t) ==
    LET user == findOne(db, req.email) IN
    IF req.errors THEN [res |-> handleError([status |-> 400]), db |-> db]
    ELSE IF user = NoUser THEN [res |-> Response(401, "Invalid credentials"), db |-> db]
    ELSE IF ~comparePassword(user, req.password)
        THEN [res |-> Response(401, "Invalid credentials"),
              db |-> save(db, incrementLoginAttempts(user, t), user)]
    ELSE IF isLocked(user, t)
        THEN [res |-> Response(423, "Account is locked. Please try again later."), db |-> db]
    ELSE LET u1 == resetLoginAttempts(user)
             db1 == save(db, u1, user)
             tokens == generateTokens(u1._id, t)
             u2 == [u1 EXCEPT !.lastLogin = t]
         IN [res |-> LoginSuccess(u2, tokens), db |-> save(db1, u2, u1)]

----------------------------------------------------------------------------
(* The login flow, one request at a time *)

NoRequest == [email |-> UnknownEmail, password |-> "wrong", errors |-> FALSE]

NoLast ==
    [op |-> "none", req |-> NoRequest, time |-> 0, res |-> Response(0, "none"),
     pre |-> NoUser, runPre |-> 0, runEndPre |-> NoDate]

RaceIdle ==
    /\ pc = [r \in 1..NumRequests |-> "idle"]
    /\ copy = [r \in 1..NumRequests |-> NoUser]
    /\ handlerOf = [r \in 1..NumRequests |-> "auth"]
    /\ failed = 0
    /\ init0 = 0

MwIdle ==
    /\ redisClient = FALSE
    /\ blacklist = {}
    /\ mw = [op |-> "none"]

NoSess == [op |-> "none"]

\* config.maxRetries when MONGO_MAX_RETRIES is not set
DefaultMaxRetries == 5

\* the process is running: process.exit has not been called
NoExit == -1

\* new DatabaseService(): the instance, the settings it read from process.env,
\* and the process around it (the calls of connect() in flight, the
\* 'maxRetriesExceeded' events emitted, the exit code)
Constructed(maxRetries, uri) ==
    [maxRetries |-> maxRetries, uri |-> uri, isConnected |-> FALSE,
     connectionAttempts |-> 0, healthChecks |-> 0, emitted |-> 0,
     exitCode |-> NoExit, calls |-> <<>>]

\* new Order(...): status 'pending' by default, statusHistory empty
NewOrder ==
    [status |-> "pending", payment |-> [status |-> "pending"],
     shipping |-> [trackingNumber |-> Undefined], statusHistory |-> <<>>]

AppIdle ==
    /\ databaseService = Constructed(DefaultMaxRetries, TRUE)
    /\ order = NewOrder

SessIdle ==
    /\ jar = NoToken
    /\ sess = NoSess
    /\ entropy = 1
    /\ spent = {}

Init ==
    /\ now = 0
    /\ \E role \in Roles : users = [e \in {StoredEmail} |-> NewUser(role)]
    /\ last = NoLast
    /\ run = 0
    /\ runEnd = NoDate
    /\ RaceIdle
    /\ MwIdle
    /\ nodeEnv \in NodeEnvs
    /\ SessIdle
    /\ AppIdle

\* the stored counter stays within the bound of the model
WithinBound(db) == \A e \in DOMAIN db : db[e].loginAttempts <= MaxAttempts

Record(op, req, result) ==
    [op |-> op, req |-> req, time |-> now, res |-> result.res,
     pre |-> findOne(users, req.email), runPre |-> run, runEndPre |-> runEnd]

\* POST /auth/login served by AuthController.login
AuthLogin(req) ==
    LET result == AuthLoginResult(users, req, now)
        onStored == req.email = StoredEmail /\ ~req.errors
    IN /\ WithinBound(result.db)
       /\ users' = result.db
       /\ last' = Record("auth", req, result)
       /\ run' = IF ~onStored \/ result.res.status = 423 THEN run
                 ELSE IF result.res.status = 200 THEN 0
                 ELSE IF run \in 0..(MaxLoginAttempts - 1) THEN run + 1
                 ELSE -1
       /\ runEnd' = IF run' = MaxLoginAttempts /\ run # MaxLoginAttempts THEN now
                    ELSE IF run' = MaxLoginAttempts THEN runEnd ELSE NoDate
       /\ UNCHANGED <<now, raceVars, mwVars, nodeEnv, appVars, sessVars>>

\* POST /auth/login served by MainController.login
MainLogin(req) ==
    LET result == MainLoginResult(users, req, now)
        onStored == req.email = StoredEmail /\ ~req.errors
    IN /\ WithinBound(result.db)
       /\ users' = result.db
       /\ last' = Record("main", req, result)
       /\ run' = IF ~onStored \/ result.res.status = 423 THEN run
                 ELSE IF result.res.status = 200 THEN 0
                 ELSE -1
       /\ runEnd' = IF run' = MaxLoginAttempts THEN runEnd ELSE NoDate
       /\ UNCHANGED <<now, raceVars, mwVars, nodeEnv, appVars, sessVars>>

\* the clock advances by one hour
Tick ==
    /\ now < MaxTime
    /\ now' = now + 1
    /\ UNCHANGED <<loginVars, raceVars, mwVars, nodeEnv, appVars, sessVars>>

Next ==
    \/ \E req \in LoginRequests : AuthLogin(req)
    \/ \E req \in LoginRequests : MainLogin(req)
    \/ Tick

Spec == Init /\ [][Next]_vars

----------------------------------------------------------------------------
(* Concurrent wrong-password logins for the stored identity.  Each request  *)
(* is suspended at its awaits: other requests run between the findOne that  *)
(* loads its document and the save inside incrementLoginAttempts.           *)

Requests == 1..NumRequests
Handlers == {"auth", "main"}

InitRace ==
    /\ now = 0
    /\ \E n \in 0..(MaxLoginAttempts - 1) :
          /\ users = [e \in {StoredEmail} |->
                        [NewUser("user") EXCEPT !.loginAttempts = n]]
          /\ init0 = n
    /\ \E k \in Requests :
          pc = [r \in Requests |-> IF r <= k THEN "start" ELSE "idle"]
    /\ copy = [r \in Requests |-> NoUser]
    /\ handlerOf \in [Requests -> Handlers]
    /\ failed = 0
    /\ last = NoLast
    /\ run = 0
    /\ runEnd = NoDate
    /\ MwIdle
    /\ nodeEnv = "production"
    /\ SessIdle
    /\ AppIdle

\* await User.findOne({ email }) resolves; AuthController.login then checks
\* the lock on the loaded document and answers 423 at once when it is locked
RaceLoad(r) ==
    /\ pc[r] = "start"
    /\ LET user == findOne(users, StoredEmail) IN
         /\ copy' = [copy EXCEPT ![r] = user]
         /\ pc' = [pc EXCEPT ![r] =
                IF handlerOf[r] = "auth" /\ isLocked(user, now)
                THEN "done" ELSE "loaded"]
    /\ UNCHANGED <<now, loginVars, handlerOf, failed, init0, mwVars, nodeEnv, appVars, sessVars>>

\* await user.comparePassword(password) resolves to false; the request runs
\* incrementLoginAttempts on its own document, saves it and answers 401
RaceFail(r) ==
    /\ pc[r] = "loaded"
    /\ users' = save(users, incrementLoginAttempts(copy[r], now), copy[r])
    /\ failed' = failed + 1
    /\ pc' = [pc EXCEPT ![r] = "done"]
    /\ UNCHANGED <<now, last, run, runEnd, copy, handlerOf, init0, mwVars, nodeEnv, appVars, sessVars>>

NextRace ==
    \/ \E r \in Requests : RaceLoad(r)
    \/ \E r \in Requests : RaceFail(r)

SpecRace == InitRace /\ [][NextRace]_vars

----------------------------------------------------------------------------
(* The bearer-token middleware.  A token string is a sequence of parts; the *)
(* string of a JWT has the single part that signJWT returns.                *)

BearerPart == [kind |-> "Bearer "]
JunkPart   == [kind |-> "junk"]

\* payloads handed to jwt.sign: the one generateTokens signs, and payloads
\* that also carry the role and permissions claims the middleware reads
Payloads ==
    { [id |-> "u1"],
      [id |-> "u2", role |-> "admin", permissions |-> <<"user:update">>],
      [id |-> "u3", role |-> "user"] }

IssueTimes == {0, 1}

JwtParts ==
    { signJWT(p, "JWT_SECRET", AccessExpiry, t) : p \in Payloads, t \in IssueTimes }
    \cup { signJWT([id |-> "u1"], "JWT_SECRET", 2 * AccessExpiry, 0) }
    \cup { signJWT([id |-> "u1"], "JWT_REFRESH_SECRET", AccessExpiry, t) : t \in IssueTimes }
    \cup { [signJWT([id |-> "u1"], "", AccessExpiry, 0) EXCEPT !.alg = "none"] }

TokenParts == JwtParts \cup {JunkPart}
TokenStrings == { <<x>> : x \in TokenParts }

\* the token strings handed to revokeToken: two tokens that verify when
\* fresh, and one signed with another secret
RevocableStrings ==
    { <<signJWT([id |-> "u1"], "JWT_SECRET", AccessExpiry, 0)>>,
      <<signJWT([id |-> "u3", role |-> "user"], "JWT_SECRET", AccessExpiry, 1)>>,
      <<signJWT([id |-> "u1"], "JWT_REFRESH_SECRET", AccessExpiry, 0)>> }

\* req.header('Authorization'): absent, or a string
NoHeader == [present |-> FALSE, parts |-> <<>>]
HeaderOf(parts) == [present |-> TRUE, parts |-> parts]
Headers ==
    {NoHeader, HeaderOf(<<>>), HeaderOf(<<BearerPart>>)}
    \cup { HeaderOf(<<BearerPart>> \o ts) : ts \in TokenStrings }
    \cup { HeaderOf(ts) : ts \in RevocableStrings }

\* authHeader.replace('Bearer ', ''): the first occurrence is removed
RECURSIVE replaceBearer(_)
replaceBearer(parts) ==
    IF parts = <<>> THEN <<>>
    ELSE IF Head(parts) = BearerPart THEN Tail(parts)
    ELSE <<Head(parts)>> \o replaceBearer(Tail(parts))

Err(name, message) == [ok |-> FALSE, name |-> name, message |-> message]
Ok(decoded) == [ok |-> TRUE, decoded |-> decoded]

\* jwt.verify(token, secret, { algorithms: ['HS256'], maxAge })
NoMaxAge == -1

\* jwt.verify without the exp and maxAge checks
jwtVerifyNoExpiry(token, secret, maxAge, t) ==
    IF Len(token) # 1 \/ token[1].kind # "jwt" THEN Err("JsonWebTokenError", "jwt malformed")
    ELSE LET jwt == token[1] IN
        IF jwt.alg # "HS256" THEN Err("JsonWebTokenError", "invalid algorithm")
        ELSE IF jwt.key # secret THEN Err("JsonWebTokenError", "invalid signature")
        ELSE Ok(jwt.payload)

jwtVerify(token, secret, maxAge, t) ==
    IF Len(token) # 1 \/ token[1].kind # "jwt"
        THEN Err("JsonWebTokenError", "jwt malformed")
    ELSE LET jwt == token[1] IN
        IF jwt.alg = "none" THEN Err("JsonWebTokenError", "jwt signature is required")
        ELSE IF jwt.alg # "HS256" THEN Err("JsonWebTokenError", "invalid algorithm")
        ELSE IF jwt.key # secret THEN Err("JsonWebTokenError", "invalid signature")
        ELSE IF t >= jwt.payload.exp THEN Err("TokenExpiredError", "jwt expired")
        ELSE IF maxAge # NoMaxAge /\ t >= jwt.payload.iat + maxAge THEN Err("TokenExpiredError", "maxAge exceeded")
        ELSE Ok(jwt.payload)

\* redisGet(`bl_${token}`): the entry, while it has not expired
redisGet(bl, token, t) == \E e \in bl : e.key = token /\ t < e.until

\* redisSet storing an entry that expires at once
redisSetExpired(bl, token, ttl, t) ==
    {e \in bl : e.key # token} \cup {[key |-> token, until |-> t]}

\* redisSet(`bl_${token}`, '1', 'EX', ttl): the entry replaces an older one
redisSet(bl, token, ttl, t) ==
    {e \in bl : e.key # token} \cup {[key |-> token, until |-> t + ttl]}

\* how a call to the revocation store can end
Faults == {"none", "Error", "AbortError"}

\* validateToken without the blacklist lookup
validateTokenNoBlacklist(token, redis, bl, fault, t) ==
    jwtVerify(token, "JWT_SECRET", MaxAge, t)

\* a validateToken that turns away the tokens issued up to the last change of
\* their subject's password
validateTokenSinceChange(token, redis, bl, fault, t) ==
    IF redis /\ fault # "none" THEN Err(fault, "redis failure")
    ELSE IF redis /\ redisGet(bl, token, t) THEN Err("Error", "Token has been revoked")
    ELSE LET v == jwtVerify(token, "JWT_SECRET", MaxAge, t) IN
         IF v.ok /\ \E e \in DOMAIN users :
                        /\ users[e]._id = v.decoded.id
                        /\ users[e].passwordChangedAt # NoDate
                        /\ v.decoded.iat <= users[e].passwordChangedAt
         THEN Err("JsonWebTokenError", "password changed")
         ELSE v

\* AuthMiddleware.validateToken (blacklist optional)
validateToken(token, redis, bl, fault, t) ==
    IF redis /\ fault # "none" THEN Err(fault, "redis failure")
    ELSE IF redis /\ redisGet(bl, token, t) THEN Err("Error", "Token has been revoked")
    ELSE jwtVerify(token, "JWT_SECRET", MaxAge, t)

NoReqUser == [none |-> TRUE]

\* what a middleware call did: the response it sent (status 0: none), how
\* often it called next(), req.user afterwards, and the hardening headers
Outcome(status, code, nextCalls, user, secHeaders) ==
    [status |-> status, code |-> code, nextCalls |-> nextCalls,
     user |-> user, secHeaders |-> secHeaders]

Reject(status, code) == Outcome(status, code, 0, NoReqUser, {})

\* AuthMiddleware.addSecurityHeaders
SecurityHeaders ==
    {"X-Content-Type-Options", "X-Frame-Options", "X-XSS-Protection",
     "Strict-Transport-Security"}

\* handleAuthError without the TokenExpiredError case
handleAuthErrorNoExpiry(error) ==
    IF error.name = "JsonWebTokenError" THEN Reject(401, "INVALID_TOKEN")
    ELSE IF error.name = "Error" THEN
        IF error.message = "Token has been revoked" THEN Reject(401, "TOKEN_REVOKED")
        ELSE Reject(0, Undefined)
    ELSE Reject(500, "AUTH_ERROR")

\* AuthMiddleware.handleAuthError
handleAuthError(error) ==
    IF error.name = "TokenExpiredError" THEN Reject(401, "TOKEN_EXPIRED")
    ELSE IF error.name = "JsonWebTokenError" THEN Reject(401, "INVALID_TOKEN")
    ELSE IF error.name = "Error" THEN
        IF error.message = "Token has been revoked" THEN Reject(401, "TOKEN_REVOKED")
        ELSE Reject(0, Undefined)
    ELSE Reject(500, "AUTH_ERROR")

\* req.user built without the raw token
ReqUserNoToken(decoded, token) ==
    [id |-> Get(decoded, "id"), role |-> Get(decoded, "role"),
     permissions |-> IF "permissions" \in DOMAIN decoded
                     THEN decoded.permissions ELSE <<>>,
     token |-> <<>>]

\* req.user = { id, role, permissions: decoded.permissions || [], token }
ReqUser(decoded, token) ==
    [id |-> Get(decoded, "id"), role |-> Get(decoded, "role"),
     permissions |-> IF "permissions" \in DOMAIN decoded
                     THEN decoded.permissions ELSE <<>>,
     token |-> token]

\* AuthMiddleware.authenticate
authenticate(header, redis, bl, fault, t) ==
    IF ~header.present \/ header.parts = <<>> THEN Reject(401, "NO_TOKEN")
    ELSE LET token == replaceBearer(header.parts) IN
        IF token = <<>> THEN Reject(401, "INVALID_FORMAT")
        ELSE LET v == validateToken(token, redis, bl, fault, t) IN
            IF v.ok THEN Outcome(0, Undefined, 1, ReqUser(v.decoded, token), SecurityHeaders)
            ELSE handleAuthError(v)

\* AuthMiddleware.validateToken of the AI ERP System server (blacklist required)
validateToken2(token, bl, fault, t) ==
    IF fault # "none" THEN Err(fault, "redis failure")
    ELSE IF redisGet(bl, token, t) THEN Err("Error", "Token has been revoked")
    ELSE jwtVerify(token, "JWT_SECRET", MaxAge, t)

\* AuthMiddleware.handleAuthError of the AI ERP System server
handleAuthError2(error) ==
    IF error.name = "TokenExpiredError" THEN Reject(401, "TOKEN_EXPIRED")
    ELSE IF error.name = "JsonWebTokenError" THEN Reject(401, "INVALID_TOKEN")
    ELSE IF error.message = "Token has been revoked" THEN Reject(401, "TOKEN_REVOKED")
    ELSE Reject(500, "INTERNAL_ERROR")

\* AuthMiddleware.authenticate of the AI ERP System server
authenticate2(header, bl, fault, t) ==
    IF ~header.present \/ header.parts = <<>> THEN Reject(401, Undefined)
    ELSE LET token == replaceBearer(header.parts) IN
        IF token = <<>> THEN Reject(401, Undefined)
        ELSE LET v == validateToken2(token, bl, fault, t) IN
            IF v.ok THEN Outcome(0, Undefined, 1, ReqUser(v.decoded, token),
                                 SecurityHeaders \ {"Strict-Transport-Security"})
            ELSE handleAuthError2(v)

\* a JavaScript string value that is falsy
Falsy(x) == x = Undefined \/ x = ""

\* array.includes(x)
includes(array, x) == \E i \in 1..Len(array) : array[i] = x

\* checkRole letting a request without identity context through
checkRoleFailOpen(allowedRoles, user) ==
    IF user = NoReqUser \/ Falsy(Get(user, "role"))
        THEN Outcome(0, Undefined, 1, user, {})
    ELSE IF ~includes(allowedRoles, user.role)
        THEN Outcome(403, "INVALID_ROLE", 0, user, {})
    ELSE Outcome(0, Undefined, 1, user, {})

\* AuthMiddleware.checkRole(allowedRoles)(req, res, next)
checkRole(allowedRoles, user) ==
    IF user = NoReqUser \/ Falsy(Get(user, "role"))
        THEN Outcome(403, "NO_ROLE", 0, user, {})
    ELSE IF ~includes(allowedRoles, user.role)
        THEN Outcome(403, "INVALID_ROLE", 0, user, {})
    ELSE Outcome(0, Undefined, 1, user, {})

\* AuthMiddleware.checkPermission(requiredPermission)(req, res, next)
checkPermission(requiredPermission, user) ==
    IF user = NoReqUser \/ "permissions" \notin DOMAIN user
        THEN Outcome(403, Undefined, 0, user, {})
    ELSE IF ~includes(user.permissions, requiredPermission)
        THEN Outcome(403, Undefined, 0, user, {})
    ELSE Outcome(0, Undefined, 1, user, {})

\* req.user as the gates may find it: absent, set by authenticate, or set by
\* other code without a role or without a permission list
GateUsers ==
    {NoReqUser}
    \cup { ReqUser(p, <<signJWT(p, "JWT_SECRET", AccessExpiry, 0)>>) : p \in Payloads }
    \cup { [id |-> "u4", role |-> "manager"], [id |-> "u5", role |-> "", permissions |-> <<"user:update">>] }

AllowedRoleLists == { <<"admin">>, <<"admin", "manager">>, <<"user">> }
Permissions == {"user:update", "order:read"}

NoMw == [op |-> "none"]

\* process.env as the middleware constructors read it
Env == [JWT_SECRET |-> TRUE, JWT_REFRESH_SECRET |-> TRUE, REDIS_URL |-> redisClient]

\* constructor of AuthMiddleware (unnamed authMiddleware.js): REDIS_URL is optional
constructor(env) ==
    [threw |-> ~env.JWT_SECRET, redisClient |-> env.JWT_SECRET /\ env.REDIS_URL]

\* constructor of AuthMiddleware (AI ERP System): REDIS_URL is required
constructor2(env) ==
    [threw |-> ~(env.JWT_SECRET /\ env.JWT_REFRESH_SECRET /\ env.REDIS_URL),
     redisClient |-> env.JWT_SECRET /\ env.JWT_REFRESH_SECRET /\ env.REDIS_URL]

InitMw ==
    /\ now = 0
    /\ redisClient \in BOOLEAN
    /\ blacklist = {}
    /\ mw = NoMw
    /\ \E role \in {"user"} : users = [e \in {StoredEmail} |-> NewUser(role)]
    /\ last = NoLast
    /\ run = 0
    /\ runEnd = NoDate
    /\ RaceIdle
    /\ nodeEnv = "production"
    /\ SessIdle
    /\ AppIdle

\* a request passes through authenticate (the faults of the revocation store
\* only occur when a store is configured)
Authenticate(header, fault) ==
    /\ fault = "none" \/ redisClient
    /\ mw' = [op |-> "authenticate", header |-> header, fault |-> fault, time |-> now,
              pre |-> users,
              out |-> authenticate(header, redisClient, blacklist, fault, now)]
    /\ UNCHANGED <<now, loginVars, raceVars, nodeEnv, appVars, sessVars, redisClient, blacklist>>

\* a request passes through authenticate of the AI ERP System server, whose
\* constructor throws unless REDIS_URL is set
Authenticate2(header, fault) ==
    /\ ~constructor2(Env).threw
    /\ mw' = [op |-> "authenticate2", header |-> header, fault |-> fault, time |-> now,
              pre |-> users,
              out |-> authenticate2(header, blacklist, fault, now)]
    /\ UNCHANGED <<now, loginVars, raceVars, nodeEnv, appVars, sessVars, redisClient, blacklist>>

\* AuthMiddleware.revokeToken(token)
RevokeToken(token, fault) ==
    LET stored == redisClient /\ fault = "none"
        bl == IF stored THEN redisSet(blacklist, token, RevokeTTL, now) ELSE blacklist
    IN /\ Cardinality(bl) <= MaxRevoked
       /\ blacklist' = bl
       /\ mw' = [op |-> "revokeToken", token |-> token, fault |-> fault, time |-> now,
                 threw |-> ~stored]
       /\ UNCHANGED <<now, loginVars, raceVars, nodeEnv, appVars, sessVars, redisClient>>

\* a request passes through checkRole(allowedRoles)
CheckRole(allowedRoles, user) ==
    /\ mw' = [op |-> "checkRole", allowed |-> allowedRoles, user |-> user, time |-> now,
              out |-> checkRole(allowedRoles, user)]
    /\ UNCHANGED <<now, loginVars, raceVars, nodeEnv, appVars, sessVars, redisClient, blacklist>>

\* a request passes through checkPermission(requiredPermission)
CheckPermission(permission, user) ==
    /\ mw' = [op |-> "checkPermission", required |-> permission, user |-> user,
              time |-> now, out |-> checkPermission(permission, user)]
    /\ UNCHANGED <<now, loginVars, raceVars, nodeEnv, appVars, sessVars, redisClient, blacklist>>

\* the gates of a route, as the route definitions of the usage examples
\* list them between authenticate and the handler
Gate(kind, arg) == [kind |-> kind, arg |-> arg]
GateChains ==
    { <<>>,
      <<Gate("checkRole", <<"admin">>)>>,
      <<Gate("checkPermission", "user:update")>>,
      <<Gate("checkRole", <<"admin">>), Gate("checkPermission", "user:update")>>,
      <<Gate("checkRole", <<"admin">>), Gate("checkPermission", "order:read")>> }

\* one middleware of the stack called with req.user = user
Call(gate, user) ==
    [name |-> gate.kind,
     out |-> IF gate.kind = "checkRole" THEN checkRole(gate.arg, user)
             ELSE checkPermission(gate.arg, user)]

\* Express runs the stack of a route in order: the next layer is entered
\* only when the layer before it called next(); the handler at the end
\* answers with res.json
RECURSIVE Layers(_, _)
Layers(gates, user) ==
    IF gates = <<>> THEN [calls |-> <<>>, handlerRan |-> TRUE]
    ELSE LET c == Call(Head(gates), user) IN
         IF c.out.nextCalls = 0 THEN [calls |-> <<c>>, handlerRan |-> FALSE]
         ELSE LET rest == Layers(Tail(gates), c.out.user) IN
              [calls |-> <<c>> \o rest.calls, handlerRan |-> rest.handlerRan]

\* the stack with authenticate (already called, outcome first) in front
Stack(name, first, gates) ==
    IF first.nextCalls = 0
    THEN [calls |-> <<[name |-> name, out |-> first]>>, handlerRan |-> FALSE]
    ELSE LET rest == Layers(gates, first.user) IN
         [calls |-> <<[name |-> name, out |-> first]>> \o rest.calls,
          handlerRan |-> rest.handlerRan]

\* a request to a route guarded by authenticate and a chain of gates, on
\* either server
Route(name, header, fault, gates) ==
    /\ name = "authenticate" => (fault = "none" \/ redisClient)
    /\ name = "authenticate2" => ~constructor2(Env).threw
    /\ mw' = [op |-> "route", name |-> name, header |-> header, fault |-> fault,
              gates |-> gates, time |-> now,
              run |-> Stack(name,
                            IF name = "authenticate"
                            THEN authenticate(header, redisClient, blacklist, fault, now)
                            ELSE authenticate2(header, blacklist, fault, now),
                            gates)]
    /\ UNCHANGED <<now, loginVars, raceVars, nodeEnv, appVars, sessVars, redisClient, blacklist>>

\* the Authorization headers sent to the guarded routes: none, text that is
\* no JWT, and the access tokens of the three payloads
RouteHeaders ==
    {NoHeader, HeaderOf(<<BearerPart, JunkPart>>)}
    \cup { HeaderOf(<<BearerPart, signJWT(p, "JWT_SECRET", AccessExpiry, 0)>>) :
              p \in Payloads }

NextRoute ==
    \/ \E name \in {"authenticate", "authenticate2"}, h \in RouteHeaders, f \in Faults,
          g \in GateChains : Route(name, h, f, g)
    \/ \E ts \in RevocableStrings : RevokeToken(ts, "none")
    \/ Tick

NextMw ==
    \/ \E h \in Headers, f \in Faults : Authenticate(h, f)
    \/ \E h \in Headers, f \in Faults : Authenticate2(h, f)
    \/ \E ts \in RevocableStrings, f \in {"none", "Error"} : RevokeToken(ts, f)
    \/ \E a \in AllowedRoleLists, u \in GateUsers : CheckRole(a, u)
    \/ \E p \in Permissions, u \in GateUsers : CheckPermission(p, u)
    \/ Tick

SpecMw == InitMw /\ [][NextMw]_vars

\* the guarded routes of the usage examples
SpecRoute == InitMw /\ [][NextRoute]_vars

----------------------------------------------------------------------------
(* The session endpoints of AuthController ("auth") and MainController     *)
(* ("main"): login, refresh, logout, forgotPassword and resetPassword.     *)

\* how many reset tokens crypto.randomBytes hands out
MaxResets == 2

\* the reset window of forgotPassword: 30 minutes, counted in half hours
ResetExpiry == 1
HalfHours(t) == 2 * t

NewPassword == "NewSecret456!"
NewPasswords == {GoodPassword, NewPassword}

\* what the browser keeps of the refreshToken cookie after a response
Browser(cookie, res) ==
    IF res.clearCookie THEN NoToken
    ELSE IF res.cookie # NoToken THEN res.cookie
    ELSE cookie

\* res.cookie('refreshToken', newRefreshToken, ...); res.json({ data: { accessToken } })
RefreshSuccess(tokens) ==
    [Response(200, "success") EXCEPT !.accessToken = tokens.accessToken,
                                     !.cookie = tokens.refreshToken,
                                     !.cookieOptions = CookieOptions]

\* the cookie the request s retired: the one a successful refresh used, or
\* the one a logout cleared
Retired(s) ==
    IF s.op = "refresh" /\ s.res.status = 200 THEN {s.req.cookie}
    ELSE IF s.op = "logout" /\ s.jarPre # NoToken THEN {<<s.jarPre>>}
    ELSE {}

\* a refresh that accepts every refresh token once only
AuthRefreshResultOneTime(cookie, t) ==
    IF cookie = <<>> THEN Response(401, "Refresh token not found")
    ELSE LET v == jwtVerify(cookie, "JWT_REFRESH_SECRET", NoMaxAge, t) IN
         IF v.ok /\ cookie \notin Retired(sess)
         THEN RefreshSuccess(generateTokens(v.decoded.id, t))
         ELSE Response(401, "Invalid refresh token")

\* a refresh that looks the subject up and turns a locked identity away
AuthRefreshResultChecksLock(cookie, t) ==
    IF cookie = <<>> THEN Response(401, "Refresh token not found")
    ELSE LET v == jwtVerify(cookie, "JWT_REFRESH_SECRET", NoMaxAge, t) IN
         IF v.ok /\ \E e \in DOMAIN users :
                        users[e]._id = v.decoded.id /\ users[e].lockUntil > t
         THEN Response(423, "Account is locked. Please try again later.")
         ELSE IF v.ok THEN RefreshSuccess(generateTokens(v.decoded.id, t))
         ELSE Response(401, "Invalid refresh token")

\* AuthController.refresh; the cookie is a token string, empty when missing
AuthRefreshResult(cookie, t) ==
    IF cookie = <<>> THEN Response(401, "Refresh token not found")
    ELSE LET v == jwtVerify(cookie, "JWT_REFRESH_SECRET", NoMaxAge, t) IN
         IF v.ok THEN RefreshSuccess(generateTokens(v.decoded.id, t))
         ELSE Response(401, "Invalid refresh token")

\* MainController.refresh: every failure goes through handleError
MainRefreshResult(cookie, t) ==
    IF cookie = <<>>
    THEN handleError([status |-> 401, message |-> "Refresh token not found"])
    ELSE LET v == jwtVerify(cookie, "JWT_REFRESH_SECRET", NoMaxAge, t) IN
         IF v.ok THEN RefreshSuccess(generateTokens(v.decoded.id, t))
         ELSE handleError([name |-> v.name, message |-> v.message])

\* a logout answer that leaves the cookie in place
LogoutKeepsCookie == Response(200, "Successfully logged out")

\* AuthController.logout and MainController.logout
LogoutResult ==
    [Response(200, "Successfully logged out") EXCEPT !.clearCookie = TRUE]

ForgotSent == Response(200, "Password reset instructions sent to email")

\* the document after forgotPassword stored the hash of the fresh token
withResetToken(user, raw, t) ==
    [user EXCEPT !.resetPasswordToken = Sha256(raw),
                 !.resetPasswordExpires = HalfHours(t) + ResetExpiry]

\* AuthController.forgotPassword
AuthForgotResult(db, email, raw, t) ==
    LET user == findOne(db, email) IN
    IF user = NoUser THEN [res |-> Response(404, "User not found"), db |-> db]
    ELSE [res |-> ForgotSent, db |-> save(db, withResetToken(user, raw, t), user)]

\* MainController.forgotPassword
MainForgotResult(db, email, raw, t) ==
    LET user == findOne(db, email) IN
    IF user = NoUser
    THEN [res |-> handleError([status |-> 404, message |-> "User not found"]), db |-> db]
    ELSE [res |-> ForgotSent, db |-> save(db, withResetToken(user, raw, t), user)]

\* the reset query without the expiry condition
findOneByResetAnyTime(db, hashedToken, t) ==
    LET hits == {e \in DOMAIN db : db[e].resetPasswordToken = hashedToken}
    IN IF hits = {} THEN NoUser ELSE db[CHOOSE e \in hits : TRUE]

\* User.findOne({ resetPasswordToken: hashedToken,
\*                resetPasswordExpires: { $gt: Date.now() } })
findOneByReset(db, hashedToken, t) ==
    LET hits == {e \in DOMAIN db :
                    /\ db[e].resetPasswordToken = hashedToken
                    /\ db[e].resetPasswordExpires # NoDate
                    /\ db[e].resetPasswordExpires > HalfHours(t)}
    IN IF hits = {} THEN NoUser ELSE db[CHOOSE e \in hits : TRUE]

\* the document resetPassword saves: the pre-save hook hashes the password
\* and stamps passwordChangedAt
withNewPassword(user, password, t) ==
    [user EXCEPT !.password = Hash(password),
                 !.passwordChangedAt = t,
                 !.resetPasswordToken = NoHash,
                 !.resetPasswordExpires = NoDate]

\* AuthController.resetPassword
AuthResetResult(db, token, password, t) ==
    LET user == findOneByReset(db, Sha256(token), t) IN
    IF user = NoUser
    THEN [res |-> Response(400, "Invalid or expired reset token"), db |-> db]
    ELSE [res |-> Response(200, "Password successfully reset"),
          db |-> save(db, withNewPassword(user, password, t), user)]

\* MainController.resetPassword
MainResetResult(db, token, password, t) ==
    LET user == findOneByReset(db, Sha256(token), t) IN
    IF user = NoUser
    THEN [res |-> handleError([status |-> 400, message |-> "Invalid or expired reset token"]),
          db |-> db]
    ELSE [res |-> Response(200, "Password successfully reset"),
          db |-> save(db, withNewPassword(user, password, t), user)]

\* req.cookies.refreshToken as a client can send it: nothing, text that is
\* no JWT, an access token, an unsigned token, a refresh token that expires
\* at time 1, the cookie the browser holds, and a copy of the cookie that the
\* request before used in a refresh or had cleared by a logout
ExpiringRefreshToken ==
    signJWT([id |-> "u2"], "JWT_REFRESH_SECRET", RefreshExpiry, 1 - RefreshExpiry)
UnsignedRefreshToken ==
    [signJWT([id |-> "u1"], "", RefreshExpiry, 0) EXCEPT !.alg = "none"]
RefreshCookies ==
    { <<>>, <<JunkPart>>,
      <<signJWT([id |-> "u1"], "JWT_SECRET", AccessExpiry, 0)>>,
      <<UnsignedRefreshToken>>,
      <<ExpiringRefreshToken>> }
    \cup (IF jar = NoToken THEN {} ELSE {<<jar>>})
    \cup Retired(sess)

\* login requests of the session flow: for the stored identity, validated
SessionLogins ==
    {req \in LoginRequests : req.email = StoredEmail /\ ~req.errors
                             /\ req.password = GoodPassword}

InitSession ==
    /\ now = 0
    /\ \E role \in Roles : users = [e \in {StoredEmail} |-> NewUser(role)]
    /\ nodeEnv \in NodeEnvs
    /\ SessIdle
    /\ last = NoLast
    /\ run = 0
    /\ runEnd = NoDate
    /\ RaceIdle
    /\ MwIdle
    /\ AppIdle

\* the record of a session request: the request, the response, and the
\* collection, the browser's cookie and the spent tokens before the request
Served(op, h, req, res) ==
    [op |-> op, handler |-> h, req |-> req, time |-> now, res |-> res,
     pre |-> users, jarPre |-> jar, spentPre |-> spent, retiredPre |-> Retired(sess)]

\* POST /auth/login
Login(h, req) ==
    LET result == IF h = "auth" THEN AuthLoginResult(users, req, now)
                  ELSE MainLoginResult(users, req, now)
    IN /\ WithinBound(result.db)
       /\ users' = result.db
       /\ jar' = Browser(jar, result.res)
       /\ sess' = Served("login", h, req, result.res)
       /\ UNCHANGED <<now, last, run, runEnd, raceVars, mwVars, nodeEnv, appVars, entropy, spent>>

\* POST /auth/refresh
Refresh(h, cookie) ==
    LET res == IF h = "auth" THEN AuthRefreshResult(cookie, now)
               ELSE MainRefreshResult(cookie, now)
    IN /\ jar' = Browser(jar, res)
       /\ sess' = Served("refresh", h, [cookie |-> cookie], res)
       /\ UNCHANGED <<now, loginVars, raceVars, mwVars, nodeEnv, appVars, entropy, spent>>

\* POST /auth/logout
Logout(h) ==
    /\ jar' = Browser(jar, LogoutResult)
    /\ sess' = Served("logout", h, [cookie |-> jar], LogoutResult)
    /\ UNCHANGED <<now, loginVars, raceVars, mwVars, nodeEnv, appVars, entropy, spent>>

\* POST /auth/forgot-password; a fresh token is drawn when the user exists
ForgotPassword(h, email) ==
    LET result == IF h = "auth" THEN AuthForgotResult(users, email, entropy, now)
                  ELSE MainForgotResult(users, email, entropy, now)
        drawn == findOne(users, email) # NoUser
    IN /\ drawn => entropy <= MaxResets
       /\ users' = result.db
       /\ entropy' = IF drawn THEN entropy + 1 ELSE entropy
       /\ sess' = Served("forgotPassword", h, [email |-> email, raw |-> entropy], result.res)
       /\ UNCHANGED <<now, last, run, runEnd, raceVars, mwVars, nodeEnv, appVars, jar, spent>>

\* POST /auth/reset-password
ResetPassword(h, token, password) ==
    LET result == IF h = "auth" THEN AuthResetResult(users, token, password, now)
                  ELSE MainResetResult(users, token, password, now)
    IN /\ users' = result.db
       /\ spent' = IF result.res.status = 200 THEN spent \cup {token} ELSE spent
       /\ sess' = Served("resetPassword", h, [token |-> token, password |-> password],
                         result.res)
       /\ UNCHANGED <<now, last, run, runEnd, raceVars, mwVars, nodeEnv, appVars, jar, entropy>>

NextSession ==
    \/ \E h \in Handlers, req \in SessionLogins : Login(h, req)
    \/ \E h \in Handlers, cookie \in RefreshCookies : Refresh(h, cookie)
    \/ \E h \in Handlers : Logout(h)
    \/ Tick

SpecSession == InitSession /\ [][NextSession]_vars

\* refresh next to logins that can fail and lock the identity
LockingLogins ==
    {req \in LoginRequests : req.email = StoredEmail /\ ~req.errors}

InitLocking ==
    /\ now = 0
    /\ users = [e \in {StoredEmail} |-> NewUser("user")]
    /\ nodeEnv = "production"
    /\ SessIdle
    /\ last = NoLast
    /\ run = 0
    /\ runEnd = NoDate
    /\ RaceIdle
    /\ MwIdle
    /\ AppIdle

NextLocking ==
    \/ \E h \in Handlers, req \in LockingLogins : Login(h, req)
    \/ \E h \in Handlers, cookie \in RefreshCookies : Refresh(h, cookie)
    \/ Tick

SpecLocking == InitLocking /\ [][NextLocking]_vars

\* the password reset flow on its own
InitReset ==
    /\ now = 0
    /\ users = [e \in {StoredEmail} |-> NewUser("user")]
    /\ nodeEnv = "production"
    /\ SessIdle
    /\ last = NoLast
    /\ run = 0
    /\ runEnd = NoDate
    /\ RaceIdle
    /\ MwIdle
    /\ AppIdle

NextReset ==
    \/ \E h \in Handlers, email \in Emails : ForgotPassword(h, email)
    \/ \E h \in Handlers, token \in 0..MaxResets, password \in NewPasswords :
          ResetPassword(h, token, password)
    \/ Tick

SpecReset == InitReset /\ [][NextReset]_vars

\* the password reset flow next to the middleware: the client presents the
\* access tokens generateTokens has signed for the stored user so far
IssuedHeaders ==
    { HeaderOf(<<BearerPart, generateTokens(users[StoredEmail]._id, t).accessToken>>) :
        t \in 0..now }

InitResetAuth ==
    /\ now = 0
    /\ users = [e \in {StoredEmail} |-> NewUser("user")]
    /\ nodeEnv = "production"
    /\ SessIdle
    /\ last = NoLast
    /\ run = 0
    /\ runEnd = NoDate
    /\ RaceIdle
    /\ redisClient = TRUE
    /\ blacklist = {}
    /\ mw = NoMw
    /\ AppIdle

NextResetAuth ==
    \/ ForgotPassword("auth", StoredEmail)
    \/ \E token \in 1..entropy : ResetPassword("auth", token, NewPassword)
    \/ \E header \in IssuedHeaders : Authenticate(header, "none")
    \/ RevokeToken(<<generateTokens(users[StoredEmail]._id, 0).accessToken>>, "none")
    \/ Tick

SpecResetAuth == InitResetAuth /\ [][NextResetAuth]_vars

----------------------------------------------------------------------------
(* DatabaseService (server/config/database.js).  Each call of connect() is a *)
(* record: where it stands, its local `retries`, and two history fields:   *)
(* the attempts it has made and the attempts that succeeded.               *)

MaxEnvRetries == 3
MaxConnects == 2

\* process.env.MONGO_MAX_RETRIES || 5
MaxRetriesSettings == (0..MaxEnvRetries) \cup {DefaultMaxRetries}

\* let retries = this.config.maxRetries
newCall(svc) ==
    [pc |-> "loop", retries |-> svc.maxRetries, tries |-> 0, successes |-> 0]

\* the end of connect() that forgets the event
exhaustedSilently(svc) ==
    [svc EXCEPT !.exitCode = 1]

\* this.emit('maxRetriesExceeded'); process.exit(1)
exhausted(svc) ==
    [svc EXCEPT !.emitted = @ + 1, !.exitCode = 1]

\* the 'connected' listener of mongoose.connection
onConnected(svc) ==
    [svc EXCEPT !.isConnected = TRUE, !.connectionAttempts = 0]

Running == databaseService.exitCode = NoExit

InFlight(i) == Running /\ i \in 1..Len(databaseService.calls)

InitDb ==
    /\ \E m \in MaxRetriesSettings, uri \in BOOLEAN :
          databaseService = Constructed(m, uri)
    /\ order = NewOrder
    /\ now = 0
    /\ users = [e \in {StoredEmail} |-> NewUser("user")]
    /\ nodeEnv = "production"
    /\ SessIdle
    /\ last = NoLast
    /\ run = 0
    /\ runEnd = NoDate
    /\ RaceIdle
    /\ MwIdle

DbUnchanged ==
    UNCHANGED <<now, loginVars, raceVars, mwVars, nodeEnv, sessVars, order>>

\* databaseService.connect() at start-up
connect ==
    /\ Running /\ databaseService.calls = <<>>
    /\ databaseService' =
          [databaseService EXCEPT !.calls = <<newCall(databaseService)>>]
    /\ DbUnchanged

\* the head of the loop: another attempt while retries > 0 (it fails at once
\* when MONGO_URI is not defined), otherwise the event and process.exit(1)
ConnectLoop(i) ==
    /\ InFlight(i) /\ databaseService.calls[i].pc = "loop"
    /\ LET c == databaseService.calls[i] IN
       databaseService' =
          IF c.retries > 0
          THEN [databaseService EXCEPT
                  !.connectionAttempts = @ + 1,
                  !.calls[i].tries = @ + 1,
                  !.calls[i].pc = IF databaseService.uri THEN "connecting" ELSE "failed"]
          ELSE [exhausted(databaseService) EXCEPT !.calls[i].pc = "exited"]
    /\ DbUnchanged

\* await mongoose.connect(...) resolves: the 'connected' listener has run,
\* the health check is started, connect() returns
MongooseConnected(i) ==
    /\ InFlight(i) /\ databaseService.calls[i].pc = "connecting"
    /\ databaseService' =
          [onConnected(databaseService) EXCEPT
              !.healthChecks = @ + 1,
              !.calls[i].successes = @ + 1,
              !.calls[i].pc = "returned"]
    /\ DbUnchanged

\* await mongoose.connect(...) rejects
MongooseFailed(i) ==
    /\ InFlight(i) /\ databaseService.calls[i].pc = "connecting"
    /\ databaseService' = [databaseService EXCEPT !.calls[i].pc = "failed"]
    /\ DbUnchanged

\* catch (err): handleConnectionError has waited retryDelay; retries--
handleConnectionError(i) ==
    /\ InFlight(i) /\ databaseService.calls[i].pc = "failed"
    /\ databaseService' =
          [databaseService EXCEPT !.calls[i].retries = @ - 1, !.calls[i].pc = "loop"]
    /\ DbUnchanged

\* a health check whose ping throws and which finds the connection gone
\* ('disconnected' has fired in between): it calls connect() again
healthCheckFailed ==
    /\ Running /\ databaseService.healthChecks > 0 /\ databaseService.isConnected
    /\ Len(databaseService.calls) < MaxConnects
    /\ databaseService' =
          [databaseService EXCEPT
              !.isConnected = FALSE,
              !.calls = Append(@, newCall(databaseService))]
    /\ DbUnchanged

\* the driver re-establishes the connection by itself: 'connected' fires
mongooseReconnected ==
    /\ Running /\ databaseService.healthChecks > 0 /\ ~databaseService.isConnected
    /\ databaseService' = onConnected(databaseService)
    /\ DbUnchanged

\* the steps of the i-th call of connect()
Advance(i) ==
    \/ ConnectLoop(i)
    \/ MongooseConnected(i)
    \/ MongooseFailed(i)
    \/ handleConnectionError(i)

NextDb ==
    \/ connect
    \/ \E i \in 1..MaxConnects : Advance(i)
    \/ healthCheckFailed
    \/ mongooseReconnected

\* every await of a call settles: the driver's time-outs and the retry timer
SpecDb ==
    InitDb /\ [][NextDb]_vars /\ \A i \in 1..MaxConnects : WF_vars(Advance(i))

----------------------------------------------------------------------------
(* The Order model (server/models/Orders.js): one document and its methods. *)
(* The timestamps of the history entries are left out.                      *)

MaxHistory == 3

\* the enum of status and of statusHistory.status
OrderStatuses == {"pending", "processing", "shipped", "delivered", "cancelled"}

Notes == {Undefined, "checked"}
TrackingNumbers == {"TRK-1", "TRK-2"}
Reasons == {"damaged"}

\* orderSchema.methods.updateStatus
updateStatus(doc, status, note) ==
    [doc EXCEPT !.status = status,
                !.statusHistory = Append(@, [status |-> status, note |-> note])]

\* orderSchema.methods.addTracking
addTracking(doc, trackingNumber) ==
    [doc EXCEPT !.shipping.trackingNumber = trackingNumber,
                !.status = "shipped"]

\* orderSchema.methods.processRefund
processRefund(doc, reason) ==
    [doc EXCEPT !.status = "cancelled",
                !.payment.status = "refunded",
                !.statusHistory =
                    Append(@, [status |-> "cancelled",
                               note |-> <<"Refund processed: ", reason>>])]

InitOrder ==
    /\ order = NewOrder
    /\ databaseService = Constructed(DefaultMaxRetries, TRUE)
    /\ now = 0
    /\ users = [e \in {StoredEmail} |-> NewUser("user")]
    /\ nodeEnv = "production"
    /\ SessIdle
    /\ last = NoLast
    /\ run = 0
    /\ runEnd = NoDate
    /\ RaceIdle
    /\ MwIdle

OrderUnchanged ==
    UNCHANGED <<now, loginVars, raceVars, mwVars, nodeEnv, sessVars, databaseService>>

\* order.updateStatus(status, note), saved
UpdateStatus(status, note) ==
    /\ Len(order.statusHistory) < MaxHistory
    /\ order' = updateStatus(order, status, note)
    /\ OrderUnchanged

\* order.addTracking(trackingNumber, estimatedDelivery), saved
AddTracking(trackingNumber) ==
    /\ order' = addTracking(order, trackingNumber)
    /\ OrderUnchanged

\* order.processRefund(reason), saved
ProcessRefund(reason) ==
    /\ Len(order.statusHistory) < MaxHistory
    /\ order' = processRefund(order, reason)
    /\ OrderUnchanged

NextOrder ==
    \/ \E status \in OrderStatuses, note \in Notes : UpdateStatus(status, note)
    \/ \E t \in TrackingNumbers : AddTracking(t)
    \/ \E reason \in Reasons : ProcessRefund(reason)

SpecOrder == InitOrder /\ [][NextOrder]_vars

----------------------------------------------------------------------------
(* Claims about the login flow, checked under Spec *)

\* the last request was a well-formed login for the stored identity
OnStored(op) ==
    /\ last.op = op
    /\ last.req.email = StoredEmail
    /\ ~last.req.errors

LastCorrect == last.req.password = GoodPassword

\* C1: with AuthController.login, after five consecutive wrong-password
\* attempts on an identity that started with loginAttempts = 0 and no lock,
\* the identity is locked until one hour after the fifth failure; every
\* attempt before that time is answered 423, the correct password included,
\* and a correct-password attempt after that time is answered 200.
C1_LockAfterFiveFailures ==
    /\ run = MaxLoginAttempts =>
          /\ users[StoredEmail].loginAttempts = MaxLoginAttempts
          /\ users[StoredEmail].lockUntil = runEnd + LockTime
    /\ (OnStored("auth") /\ last.runPre = MaxLoginAttempts) =>
          /\ last.time < last.runEndPre + LockTime => last.res.status = 423
          /\ (last.time > last.runEndPre + LockTime /\ LastCorrect) =>
                last.res.status = 200

\* the sixth attempt, with the correct password, made during the lock
C1_Witness ==
    /\ OnStored("auth") /\ last.runPre = MaxLoginAttempts /\ LastCorrect
    /\ last.time < last.runEndPre + LockTime
    /\ last.res.status = 423

\* C3: in both login handlers, every login attempt for an existing identity
\* whose lockUntil is set and in the future is answered 423, whatever the
\* supplied password.
C3_LockedAnswered423 ==
    ((OnStored("auth") \/ OnStored("main")) /\ isLocked(last.pre, last.time))
        => last.res.status = 423

\* C4: a login with the email and the correct password of a stored identity
\* that is not locked is answered 200 with an access token whose claims hold
\* that identity's id and that identity's role.
C4_TokenCarriesIdAndRole ==
    ((OnStored("auth") \/ OnStored("main")) /\ LastCorrect
        /\ ~isLocked(last.pre, last.time))
        => /\ last.res.status = 200
           /\ Get(last.res.accessToken.payload, "id") = last.pre._id
           /\ Get(last.res.accessToken.payload, "role") = last.pre.role

\* C5: whenever a login is answered 200, the stored identity afterwards has
\* loginAttempts = 0, no lockUntil, and lastLogin equal to the time of the
\* attempt, whatever the counter was before.
C5_SuccessResetsCounter ==
    last.res.status = 200 =>
        /\ users[last.req.email].loginAttempts = 0
        /\ users[last.req.email].lockUntil = NoDate
        /\ users[last.req.email].lastLogin = last.time

\* a success that found a non-zero counter and an expired lock
C5_Witness ==
    /\ last.res.status = 200
    /\ last.pre.loginAttempts >= MaxLoginAttempts
    /\ last.pre.lockUntil # NoDate
    /\ users[last.req.email].loginAttempts = 0

\* what AuthController.login answers to the same request when no identity
\* with that email is stored
AnswerWhenAbsent(req, t) ==
    AuthLoginResult([e \in {} |-> NoUser], req, t).res

\* C6 (as claimed): the answer of AuthController.login to a request that does
\* not carry the correct password is the same whether or not an identity with
\* that email is stored.
C6_NoDisclosure ==
    (last.op = "auth" /\ ~LastCorrect)
        => last.res = AnswerWhenAbsent(last.req, last.time)

\* C6 (amended): for a stored identity that is not locked, the answer of
\* AuthController.login to a wrong password is the answer it gives for an
\* unknown email; a locked identity is answered 423.
C6_NoDisclosureUnlessLocked ==
    (last.op = "auth" /\ ~LastCorrect) =>
        IF last.pre # NoUser /\ ~last.req.errors /\ isLocked(last.pre, last.time)
        THEN last.res.status = 423
        ELSE last.res = AnswerWhenAbsent(last.req, last.time)

\* a wrong password for the stored, unlocked identity, answered 401
C6_Witness ==
    /\ OnStored("auth") /\ ~LastCorrect
    /\ ~isLocked(last.pre, last.time)
    /\ last.res.status = 401
    /\ users[StoredEmail].loginAttempts = last.pre.loginAttempts + 1

\* C22: in both login handlers a login attempt on an identity that is locked
\* leaves its loginAttempts and lockUntil unchanged.
C22_LockedAttemptNoChange ==
    ((OnStored("auth") \/ OnStored("main")) /\ isLocked(last.pre, last.time))
        => /\ users[StoredEmail].loginAttempts = last.pre.loginAttempts
           /\ users[StoredEmail].lockUntil = last.pre.lockUntil

\* what the code keeps of C22: AuthController.login leaves a locked identity
\* alone, and so does MainController.login when the password is correct
C22_LockedAttemptNoChangeAuth ==
    ((OnStored("auth") \/ (OnStored("main") /\ LastCorrect))
        /\ isLocked(last.pre, last.time))
        => /\ users[StoredEmail].loginAttempts = last.pre.loginAttempts
           /\ users[StoredEmail].lockUntil = last.pre.lockUntil

\* the lock of the identity has expired at time t
LockExpired(user, t) == user.lockUntil # NoDate /\ user.lockUntil <= t

\* one step of the login flow, as C26 describes it
C26_Step ==
    LET before == users[StoredEmail]
        after  == users'[StoredEmail]
        failedCompare ==
            /\ last'.op \in {"auth", "main"} /\ last'.time = now
            /\ last'.req.email = StoredEmail /\ ~last'.req.errors
            /\ last'.req.password # GoodPassword
            /\ last'.res.status = 401
    IN /\ after.loginAttempts # before.loginAttempts =>
            \/ after.loginAttempts = before.loginAttempts + 1 /\ failedCompare
            \/ after.loginAttempts = 0 /\ last'.res.status = 200
       /\ now' # now => users' = users
       /\ (failedCompare /\ LockExpired(before, now)
            /\ before.loginAttempts >= MaxLoginAttempts - 1) =>
              /\ after.loginAttempts = before.loginAttempts + 1
              /\ after.lockUntil = now + LockTime

\* C26: loginAttempts changes only by +1 on a failed password comparison and
\* to 0 on a successful login; the passing of time (the expiry of a lock)
\* does not change it, so one wrong password after an expired lock sets
\* lockUntil to one hour after that attempt.
C26_CounterOnlyUpOrReset == [][C26_Step]_vars

\* a wrong password after an expired lock locked the identity again
C26_Witness ==
    /\ last.op \in {"auth", "main"} /\ OnStored(last.op) /\ ~LastCorrect
    /\ LockExpired(last.pre, last.time)
    /\ last.pre.loginAttempts >= MaxLoginAttempts
    /\ last.res.status = 401
    /\ users[StoredEmail].loginAttempts = last.pre.loginAttempts + 1
    /\ users[StoredEmail].lockUntil = last.time + LockTime

----------------------------------------------------------------------------
(* Claims about the middleware, checked under SpecMw *)

\* the token string authenticate extracts from the Authorization header
TokenOf(header) == replaceBearer(header.parts)

IsJwt(token) == Len(token) = 1 /\ token[1].kind = "jwt"

\* a JWT signed with JWT_SECRET under HS256
WellSigned(token) ==
    IsJwt(token) /\ token[1].alg = "HS256" /\ token[1].key = "JWT_SECRET"

\* a JWT past its exp claim, or older than the maxAge the middleware allows
\* (both are answered "Token has expired")
Expired(token, t) ==
    IsJwt(token) /\ (t >= token[1].payload.exp \/ t >= token[1].payload.iat + MaxAge)

\* revokeToken(token) has completed: the store holds an entry for the token
Revoked(token) == \E e \in blacklist : e.key = token

\* the last call was authenticate (unnamed authMiddleware.js), and the
\* revocation store, when configured, answered its lookup
Authenticated == mw.op = "authenticate" /\ mw.fault = "none"

HasToken(header) == header.present /\ header.parts # <<>> /\ TokenOf(header) # <<>>

Rejected401(code) ==
    mw.out.status = 401 /\ mw.out.code = code /\ mw.out.nextCalls = 0

\* C7 (as claimed): authenticate rejects with the code of the first failing
\* check in the order: no header NO_TOKEN, empty token INVALID_FORMAT, revoked
\* TOKEN_REVOKED, expired TOKEN_EXPIRED, malformed or wrongly signed
\* INVALID_TOKEN; every rejection is a 401 without next().
C7_RejectionOrder ==
    Authenticated =>
        IF ~mw.header.present \/ mw.header.parts = <<>> THEN Rejected401("NO_TOKEN")
        ELSE IF TokenOf(mw.header) = <<>> THEN Rejected401("INVALID_FORMAT")
        ELSE IF redisClient /\ Revoked(TokenOf(mw.header)) THEN Rejected401("TOKEN_REVOKED")
        ELSE IF Expired(TokenOf(mw.header), mw.time) THEN Rejected401("TOKEN_EXPIRED")
        ELSE IF ~WellSigned(TokenOf(mw.header)) THEN Rejected401("INVALID_TOKEN")
        ELSE TRUE

\* C7 (amended): the same, with the malformed / wrongly signed check before
\* the expiry check: a token that is both expired and badly signed is
\* answered INVALID_TOKEN.
C7_RejectionOrderSignatureFirst ==
    Authenticated =>
        IF ~mw.header.present \/ mw.header.parts = <<>> THEN Rejected401("NO_TOKEN")
        ELSE IF TokenOf(mw.header) = <<>> THEN Rejected401("INVALID_FORMAT")
        ELSE IF redisClient /\ Revoked(TokenOf(mw.header)) THEN Rejected401("TOKEN_REVOKED")
        ELSE IF ~WellSigned(TokenOf(mw.header)) THEN Rejected401("INVALID_TOKEN")
        ELSE IF Expired(TokenOf(mw.header), mw.time) THEN Rejected401("TOKEN_EXPIRED")
        ELSE TRUE

\* a revoked token that is also expired, answered TOKEN_REVOKED
C7_Witness ==
    /\ Authenticated /\ HasToken(mw.header) /\ redisClient
    /\ Revoked(TokenOf(mw.header)) /\ Expired(TokenOf(mw.header), mw.time)
    /\ Rejected401("TOKEN_REVOKED")

\* the token is present, not revoked, validly signed and unexpired
Acceptable(header, t) ==
    /\ HasToken(header)
    /\ ~(redisClient /\ Revoked(TokenOf(header)))
    /\ WellSigned(TokenOf(header))
    /\ ~Expired(TokenOf(header), t)

\* C8: when the bearer token is present, not revoked, validly signed and
\* unexpired, authenticate sets req.user to the token's id, role, permissions
\* (the empty list when the claim is absent) and the raw token string, calls
\* next() exactly once and sends no response; in every other case next() is
\* not called.
C8_AcceptAttachesIdentity ==
    mw.op \in {"authenticate", "authenticate2"} =>
        IF mw.fault = "none" /\ Acceptable(mw.header, mw.time)
        THEN LET payload == TokenOf(mw.header)[1].payload IN
             /\ mw.out.nextCalls = 1
             /\ mw.out.status = 0
             /\ mw.out.user.id = payload.id
             /\ mw.out.user.role = Get(payload, "role")
             /\ mw.out.user.permissions =
                    (IF "permissions" \in DOMAIN payload THEN payload.permissions ELSE <<>>)
             /\ mw.out.user.token = TokenOf(mw.header)
        ELSE mw.out.nextCalls = 0

\* an accepted token without a permissions claim: the context holds []
C8_Witness ==
    /\ Authenticated /\ Acceptable(mw.header, mw.time)
    /\ "permissions" \notin DOMAIN TokenOf(mw.header)[1].payload
    /\ mw.out.nextCalls = 1
    /\ mw.out.user.permissions = <<>>

\* C9: once revokeToken(t) has completed, a request bearing t is rejected
\* 401 TOKEN_REVOKED although t is validly signed and unexpired, while a
\* request bearing another valid token that was not revoked is accepted.
C9_RevokedRejected ==
    (mw.op \in {"authenticate", "authenticate2"} /\ mw.fault = "none" /\ redisClient
        /\ HasToken(mw.header) /\ WellSigned(TokenOf(mw.header))
        /\ ~Expired(TokenOf(mw.header), mw.time)) =>
        IF Revoked(TokenOf(mw.header))
        THEN Rejected401("TOKEN_REVOKED")
        ELSE mw.out.nextCalls = 1 /\ mw.out.status = 0

\* a revoked, valid, unexpired token is rejected
C9_Witness ==
    /\ Authenticated /\ redisClient /\ HasToken(mw.header)
    /\ WellSigned(TokenOf(mw.header)) /\ ~Expired(TokenOf(mw.header), mw.time)
    /\ Revoked(TokenOf(mw.header))
    /\ Rejected401("TOKEN_REVOKED")

\* C10: checkRole calls next() only when req.user exists and its role is in
\* allowedRoles, answers 403 NO_ROLE without a user or role and 403
\* INVALID_ROLE for a role outside the list; checkPermission calls next()
\* only when the permission is in req.user.permissions and answers 403
\* otherwise.
C10_GatesFailClosed ==
    /\ mw.op = "checkRole" =>
          IF mw.user = NoReqUser \/ "role" \notin DOMAIN mw.user
             \/ mw.user.role \in {Undefined, ""}
          THEN mw.out.status = 403 /\ mw.out.code = "NO_ROLE" /\ mw.out.nextCalls = 0
          ELSE IF \A i \in 1..Len(mw.allowed) : mw.allowed[i] # mw.user.role
          THEN mw.out.status = 403 /\ mw.out.code = "INVALID_ROLE" /\ mw.out.nextCalls = 0
          ELSE mw.out.nextCalls = 1 /\ mw.out.status = 0
    /\ mw.op = "checkPermission" =>
          IF /\ mw.user # NoReqUser
             /\ "permissions" \in DOMAIN mw.user
             /\ \E i \in 1..Len(mw.user.permissions) : mw.user.permissions[i] = mw.required
          THEN mw.out.nextCalls = 1 /\ mw.out.status = 0
          ELSE mw.out.status = 403 /\ mw.out.nextCalls = 0

\* a request without an identity context stopped by checkRole
C10_Witness ==
    /\ mw.op = "checkRole"
    /\ mw.user = NoReqUser
    /\ mw.out.status = 403 /\ mw.out.code = "NO_ROLE" /\ mw.out.nextCalls = 0

\* an access token as generateTokens signs it: JWT_SECRET, lifetime '1h'
IssuedAccessToken(token) ==
    WellSigned(token) /\ token[1].payload.exp = token[1].payload.iat + AccessExpiry

\* C12: an access token of generateTokens that is not revoked is accepted by
\* authenticate at every time strictly before its exp claim and rejected with
\* 401 TOKEN_EXPIRED at every time strictly after it.
C12_ExpiryBoundary ==
    (/\ Authenticated /\ HasToken(mw.header)
     /\ IssuedAccessToken(TokenOf(mw.header))
     /\ ~(redisClient /\ Revoked(TokenOf(mw.header))))
    => LET exp == TokenOf(mw.header)[1].payload.exp IN
       /\ mw.time < exp => mw.out.nextCalls = 1 /\ mw.out.status = 0
       /\ mw.time > exp => Rejected401("TOKEN_EXPIRED")

\* an issued access token presented after its exp and answered TOKEN_EXPIRED
C12_Witness ==
    /\ Authenticated /\ HasToken(mw.header)
    /\ IssuedAccessToken(TokenOf(mw.header))
    /\ ~(redisClient /\ Revoked(TokenOf(mw.header)))
    /\ mw.time > TokenOf(mw.header)[1].payload.exp
    /\ Rejected401("TOKEN_EXPIRED")

\* C17: authenticate stamps the four hardening headers on every response it
\* touches: when it passes the request on and when it rejects it (401 or 500).
C17_HeadersAlways ==
    (mw.op = "authenticate" /\ (mw.out.nextCalls = 1 \/ mw.out.status # 0))
        => mw.out.secHeaders = SecurityHeaders

\* what the code keeps of C17: the headers are stamped on accepted requests
C17_HeadersOnAccept ==
    (mw.op = "authenticate" /\ mw.out.nextCalls = 1) => mw.out.secHeaders = SecurityHeaders

\* C18: the entry revokeToken stores for a token lasts at most until the
\* token's own expiry (its remaining natural lifetime).
C18_RevokedAtMostLifetime ==
    (mw.op = "revokeToken" /\ ~mw.threw /\ IsJwt(mw.token)) =>
        \A e \in blacklist : e.key = mw.token => e.until <= mw.token[1].payload.exp

\* C19: without REDIS_URL both middlewares are still constructed, and
\* authenticate consults no store: it accepts every validly signed unexpired
\* token, whatever a store would hold or answer.
C19_StoreOptional ==
    ~redisClient =>
        /\ ~constructor(Env).threw
        /\ ~constructor2(Env).threw
        /\ mw.op = "authenticate" =>
              /\ mw.out = authenticate(mw.header, constructor(Env).redisClient,
                                       {[key |-> TokenOf(mw.header), until |-> mw.time + RevokeTTL]},
                                       "Error", mw.time)
              /\ (/\ HasToken(mw.header) /\ WellSigned(TokenOf(mw.header))
                  /\ ~Expired(TokenOf(mw.header), mw.time)) => mw.out.nextCalls = 1

\* what the code keeps of C19: the middleware of unnamed authMiddleware.js
C19_StoreOptionalUnnamed ==
    ~redisClient =>
        /\ ~constructor(Env).threw
        /\ mw.op = "authenticate" =>
              /\ mw.out = authenticate(mw.header, constructor(Env).redisClient,
                                       {[key |-> TokenOf(mw.header), until |-> mw.time + RevokeTTL]},
                                       "Error", mw.time)
              /\ (/\ HasToken(mw.header) /\ WellSigned(TokenOf(mw.header))
                  /\ ~Expired(TokenOf(mw.header), mw.time)) => mw.out.nextCalls = 1

\* C21: a failure of the revocation-store lookup while authenticate
\* validates a token is fail-closed and answered: next() is not called and
\* the response is a 500.
C21_UnexpectedFailureAnswered ==
    (mw.op \in {"authenticate", "authenticate2"} /\ mw.fault # "none"
        /\ HasToken(mw.header))
        => mw.out.nextCalls = 0 /\ mw.out.status = 500

\* what the code keeps of C21: such a failure never reaches next(), and the
\* only response it can get is a 500
C21_UnexpectedFailureClosed ==
    (mw.op \in {"authenticate", "authenticate2"} /\ mw.fault # "none"
        /\ HasToken(mw.header))
        => mw.out.nextCalls = 0 /\ mw.out.status \in {0, 500}

\* the responses the last request to a route received: one from each
\* middleware that answered, and one from the handler when it ran
Responses ==
    Cardinality({i \in 1..Len(mw.run.calls) : mw.run.calls[i].out.status # 0})
        + (IF mw.run.handlerRan THEN 1 ELSE 0)

\* the first middleware of the chain that did not call next(): 0 when all did
FirstRejection ==
    LET stopped == {i \in 1..Len(mw.run.calls) : mw.run.calls[i].out.nextCalls = 0}
    IN IF stopped = {} THEN 0 ELSE CHOOSE i \in stopped : \A j \in stopped : i <= j

\* the middleware ran that the route chains up to and including the first
\* rejection, none after it, and the handler only when every one accepted
StopsAtFirstRejection ==
    /\ FirstRejection # 0 => Len(mw.run.calls) = FirstRejection /\ ~mw.run.handlerRan
    /\ FirstRejection = 0 => Len(mw.run.calls) = 1 + Len(mw.gates) /\ mw.run.handlerRan
    /\ mw.run.handlerRan =>
          \A i \in 1..Len(mw.run.calls) :
             mw.run.calls[i].out.nextCalls = 1 /\ mw.run.calls[i].out.status = 0

\* C24: when authenticate and gates are chained, evaluation stops at the
\* first rejection: the rejecting middleware sends exactly one response, no
\* later gate and no handler runs, and the handler runs only if every
\* middleware accepted.
C24_ShortCircuit ==
    mw.op = "route" =>
        /\ StopsAtFirstRejection
        /\ Responses = 1
        /\ FirstRejection # 0 => mw.run.calls[FirstRejection].out.status # 0

\* what holds of the code: the chain stops at the first middleware that does
\* not call next(), and the request is answered exactly once unless
\* authenticate of unnamed authMiddleware.js met a plain Error of the store
C24_ShortCircuitUnlessHung ==
    mw.op = "route" =>
        /\ StopsAtFirstRejection
        /\ Responses <= 1
        /\ Responses = 0 =>
              /\ mw.name = "authenticate" /\ mw.fault = "Error"
              /\ FirstRejection = 1

\* C25: once revokeToken has stored an access token of generateTokens, the
\* entry outlives the token, and no authenticate call bearing the token is
\* accepted from then on.
C25_NeverAcceptedAgain ==
    /\ \A e \in blacklist :
          IssuedAccessToken(e.key) => e.until > e.key[1].payload.exp
    /\ (mw.op \in {"authenticate", "authenticate2"} /\ HasToken(mw.header)
          /\ IssuedAccessToken(TokenOf(mw.header)) /\ Revoked(TokenOf(mw.header)))
          => mw.out.nextCalls = 0

\* a revoked access token presented after its expiry, and rejected
C25_Witness ==
    /\ mw.op \in {"authenticate", "authenticate2"} /\ mw.fault = "none"
    /\ HasToken(mw.header) /\ IssuedAccessToken(TokenOf(mw.header))
    /\ Revoked(TokenOf(mw.header))
    /\ mw.time >= TokenOf(mw.header)[1].payload.exp
    /\ mw.out.nextCalls = 0 /\ mw.out.status = 401

----------------------------------------------------------------------------
(* Claims about the session endpoints, checked under SpecSession *)

\* the last request issued tokens
Issued == sess.op \in {"login", "refresh"} /\ sess.res.status = 200

\* the subject the tokens were issued for: the identity that logged in, or
\* the subject of the refresh token presented
SubjectOf(s) ==
    IF s.op = "login" THEN findOne(s.pre, s.req.email)._id
    ELSE s.req.cookie[1].payload.id

\* what authenticate makes of the issued access token at the time of issuance
AcceptedAtIssuance ==
    authenticate(HeaderOf(<<BearerPart, sess.res.accessToken>>), FALSE, {}, "none", sess.time)

\* C11: the tokens of one issuance verify at once and carry the inputs: the
\* subject id in the access and in the refresh token, and (at login) the
\* identity's role in the access token.
C11_RoundTrip ==
    Issued =>
        LET out == AcceptedAtIssuance
            refresh == jwtVerify(<<sess.res.cookie>>, "JWT_REFRESH_SECRET", NoMaxAge, sess.time)
        IN /\ out.nextCalls = 1
           /\ out.user.id = SubjectOf(sess)
           /\ refresh.ok
           /\ refresh.decoded.id = SubjectOf(sess)
           /\ sess.op = "login" => out.user.role = findOne(sess.pre, sess.req.email).role

\* the part of C11 that the code keeps: both tokens verify and carry the id
C11_IdRoundTrip ==
    Issued =>
        LET out == AcceptedAtIssuance
            refresh == jwtVerify(<<sess.res.cookie>>, "JWT_REFRESH_SECRET", NoMaxAge, sess.time)
        IN /\ out.nextCalls = 1
           /\ out.user.id = SubjectOf(sess)
           /\ refresh.ok
           /\ refresh.decoded.id = SubjectOf(sess)

\* a refresh cookie that verifies at time t: a JWT signed with the refresh
\* secret and not expired
ValidRefreshCookie(cookie, t) ==
    /\ IsJwt(cookie)
    /\ cookie[1].alg = "HS256" /\ cookie[1].key = "JWT_REFRESH_SECRET"
    /\ t < cookie[1].payload.exp

\* the response carries no token and sets no cookie
NothingIssued(res) == res.accessToken = NoToken /\ res.cookie = NoToken

\* the response carries an access token and sets a refresh cookie, both
\* signed at time t for the subject id
IssuedFor(res, id, t) ==
    /\ res.accessToken = signJWT([id |-> id], "JWT_SECRET", AccessExpiry, t)
    /\ res.cookie = signJWT([id |-> id], "JWT_REFRESH_SECRET", RefreshExpiry, t)

\* C13: refresh of either controller answers 401 and issues nothing when the
\* cookie is missing, expired, malformed or not signed with the refresh
\* secret; otherwise it answers 200 with a new access token for the same
\* subject id and sets a new refresh token as the cookie.
C13_RefreshOutcome ==
    sess.op = "refresh" =>
        IF ValidRefreshCookie(sess.req.cookie, sess.time)
        THEN /\ sess.res.status = 200
             /\ IssuedFor(sess.res, sess.req.cookie[1].payload.id, sess.time)
             /\ jar = sess.res.cookie
        ELSE sess.res.status = 401 /\ NothingIssued(sess.res)

\* what both refresh handlers do keep: a cookie that does not verify is never
\* answered with a token, and a verifying cookie is answered 200 with tokens
\* for its subject
C13_RefreshFailsClosed ==
    sess.op = "refresh" =>
        IF ValidRefreshCookie(sess.req.cookie, sess.time)
        THEN /\ sess.res.status = 200
             /\ IssuedFor(sess.res, sess.req.cookie[1].payload.id, sess.time)
        ELSE sess.res.status \in {401, 500} /\ NothingIssued(sess.res) /\ jar = sess.jarPre

\* C14: logout of either controller answers 200 on every call, with or
\* without a cookie, and the client is left without a refreshToken cookie; it
\* changes nothing else.
C14_LogoutIdempotent ==
    sess.op = "logout" =>
        /\ sess.res.status = 200
        /\ sess.res.clearCookie
        /\ jar = NoToken
        /\ users = sess.pre

\* a logout that took the cookie away
C14_Witness ==
    sess.op = "logout" /\ sess.jarPre # NoToken /\ jar = NoToken /\ sess.res.status = 200

\* C20: login and refresh hand the refresh token over only as the
\* refreshToken cookie, always HttpOnly, Secure and SameSite=Strict, and never
\* in the JSON body (whose only token is the access token).
C20_CookieOnly ==
    Issued =>
        /\ sess.res.cookie.key = "JWT_REFRESH_SECRET"
        /\ sess.res.accessToken.key = "JWT_SECRET"
        /\ sess.res.cookieOptions.httpOnly
        /\ sess.res.cookieOptions.secure
        /\ sess.res.cookieOptions.sameSite = "strict"

\* what the code keeps of C20: cookie only, HttpOnly and SameSite=Strict,
\* and Secure when NODE_ENV is 'production'
C20_CookieOnlySecureInProduction ==
    Issued =>
        /\ sess.res.cookie.key = "JWT_REFRESH_SECRET"
        /\ sess.res.accessToken.key = "JWT_SECRET"
        /\ sess.res.cookieOptions.httpOnly
        /\ sess.res.cookieOptions.secure = (nodeEnv = "production")
        /\ sess.res.cookieOptions.sameSite = "strict"

\* C27: a refresh token that the request before used in a refresh, or whose
\* cookie the request before cleared by logout, is answered 200 with a new
\* token pair when it is presented to refresh before its expiry.
C27_RefreshTokenReusable ==
    (sess.op = "refresh" /\ sess.req.cookie \in sess.retiredPre
        /\ sess.time < sess.req.cookie[1].payload.exp)
        => /\ sess.res.status = 200
           /\ IssuedFor(sess.res, sess.req.cookie[1].payload.id, sess.time)

\* the cookie a logout cleared is presented again and answered 200
C27_Witness ==
    /\ sess.op = "refresh" /\ sess.req.cookie \in sess.retiredPre
    /\ sess.jarPre = NoToken
    /\ sess.res.status = 200
    /\ jar = sess.res.cookie

----------------------------------------------------------------------------
(* Claims about refresh for a locked identity, checked under SpecLocking *)

\* the identity the refresh token names is locked when the request arrives
SubjectLocked(s) ==
    /\ IsJwt(s.req.cookie)
    /\ s.pre[StoredEmail]._id = s.req.cookie[1].payload.id
    /\ s.pre[StoredEmail].lockUntil > s.time

\* C28: refresh leaves the credential store alone and answers by the token
\* only: a valid refresh token is answered 200 with a new access token also
\* when its identity is locked.
C28_RefreshIgnoresStore ==
    sess.op = "refresh" =>
        /\ users = sess.pre
        /\ sess.res.status = 200 <=> ValidRefreshCookie(sess.req.cookie, sess.time)
        /\ (ValidRefreshCookie(sess.req.cookie, sess.time) /\ SubjectLocked(sess))
              => IssuedFor(sess.res, sess.req.cookie[1].payload.id, sess.time)

\* a locked identity obtained a new access token
C28_Witness ==
    /\ sess.op = "refresh" /\ SubjectLocked(sess)
    /\ sess.res.status = 200
    /\ sess.res.accessToken.payload.id = users[StoredEmail]._id
    /\ users[StoredEmail].loginAttempts >= MaxLoginAttempts

----------------------------------------------------------------------------
(* Claims about sessions across a password reset, checked under SpecResetAuth *)

\* the last call was authenticate of either middleware, bearing an access
\* token of generateTokens that was issued to the stored user no later than
\* the completion of a password reset of that user
AfterReset ==
    /\ mw.op \in {"authenticate", "authenticate2"} /\ mw.fault = "none"
    /\ HasToken(mw.header)
    /\ IssuedAccessToken(TokenOf(mw.header))
    /\ TokenOf(mw.header)[1].payload.id = mw.pre[StoredEmail]._id
    /\ mw.pre[StoredEmail].passwordChangedAt # NoDate
    /\ mw.pre[StoredEmail].password = Hash(NewPassword)
    /\ TokenOf(mw.header)[1].payload.iat <= mw.pre[StoredEmail].passwordChangedAt

\* C23: an access token issued before resetPassword succeeded is accepted by
\* authenticate after the reset at every time before its exp claim, unless
\* it has been revoked.
C23_TokenSurvivesReset ==
    (AfterReset /\ mw.time < TokenOf(mw.header)[1].payload.exp
        /\ ~Revoked(TokenOf(mw.header)))
    => /\ mw.out.nextCalls = 1 /\ mw.out.status = 0
       /\ mw.out.user.id = mw.pre[StoredEmail]._id

\* a token of before the reset accepted after it
C23_Witness ==
    /\ AfterReset /\ mw.op = "authenticate"
    /\ spent # {}
    /\ mw.time < TokenOf(mw.header)[1].payload.exp
    /\ mw.out.nextCalls = 1

----------------------------------------------------------------------------
(* Claims about DatabaseService.connect, checked under SpecDb *)

\* a call of connect() has ended: it returned, or the process has exited
Settled(i) ==
    \/ databaseService.exitCode # NoExit
    \/ i \in 1..Len(databaseService.calls) /\ databaseService.calls[i].pc = "returned"

\* what a call of connect() has done so far agrees with the claim
ConnectBounded ==
    /\ databaseService.emitted <= 1
    /\ databaseService.emitted = 1 <=> databaseService.exitCode = 1
    /\ databaseService.exitCode \in {NoExit, 1}
    /\ \A i \in 1..Len(databaseService.calls) :
          LET c == databaseService.calls[i] IN
          /\ c.tries <= databaseService.maxRetries
          /\ c.successes <= 1
          /\ c.pc = "returned" <=> c.successes = 1
          /\ c.successes = 1 => databaseService.healthChecks >= 1
          /\ c.pc = "exited" =>
                /\ c.tries = databaseService.maxRetries /\ c.successes = 0
                /\ databaseService.emitted = 1 /\ databaseService.exitCode = 1

\* C29: a call of connect() makes at most maxRetries attempts and ends: it
\* returns after its first successful attempt, with the health check
\* started, and when all maxRetries attempts fail 'maxRetriesExceeded' is
\* emitted exactly once and the process exits with code 1.
C29_ConnectTerminates ==
    /\ []ConnectBounded
    /\ \A i \in 1..MaxConnects : (i \in 1..Len(databaseService.calls)) ~> Settled(i)

\* a call of connect() used up all its attempts and the process has exited
C29_Witness ==
    /\ databaseService.exitCode = 1 /\ databaseService.emitted = 1
    /\ databaseService.maxRetries = MaxEnvRetries
    /\ \E i \in 1..Len(databaseService.calls) :
          /\ databaseService.calls[i].pc = "exited"
          /\ databaseService.calls[i].tries = MaxEnvRetries

\* a call of connect() returned after failed attempts and one success
C29_WitnessReturned ==
    /\ databaseService.exitCode = NoExit
    /\ \E i \in 1..Len(databaseService.calls) :
          /\ databaseService.calls[i].pc = "returned"
          /\ databaseService.calls[i].tries > 1

----------------------------------------------------------------------------
(* Claims about the Order model, checked under SpecOrder *)

\* the status of the last statusHistory entry of a document
LastRecorded(doc) == doc.statusHistory[Len(doc.statusHistory)].status

\* C30: after any sequence of updateStatus, addTracking and processRefund
\* calls the last statusHistory entry carries the order's current status.
C30_HistoryCarriesStatus ==
    order # NewOrder =>
        /\ order.statusHistory # <<>>
        /\ LastRecorded(order) = order.status

\* what holds of the code: every call that appends to statusHistory
\* (updateStatus, processRefund) appends the status it sets
C30_AppendedEntryCarriesStatus ==
    [][Len(order'.statusHistory) > Len(order.statusHistory)
         => LastRecorded(order') = order'.status]_vars

----------------------------------------------------------------------------
(* Claims about the password reset flow, checked under SpecReset *)

\* C15: forgotPassword answers every request with the same generic 200,
\* whether or not an identity with that email exists.
C15_ForgotGeneric ==
    sess.op = "forgotPassword" => sess.res = ForgotSent

\* the raw token hashes to the stored reset hash and the expiry is in the future
Matching(db, token, t) ==
    \E e \in DOMAIN db :
        /\ db[e].resetPasswordToken = Sha256(token)
        /\ db[e].resetPasswordExpires > HalfHours(t)

C16_Completed ==
    /\ sess.op = "resetPassword"
    /\ Matching(sess.pre, sess.req.token, sess.time)
    /\ sess.res.status = 200
    /\ users[StoredEmail].password = Hash(NewPassword)

\* a token presented after its half hour, answered 400
C16_Late ==
    /\ sess.op = "resetPassword"
    /\ sess.pre[StoredEmail].resetPasswordToken = Sha256(sess.req.token)
    /\ sess.pre[StoredEmail].resetPasswordExpires <= HalfHours(sess.time)
    /\ sess.res.status = 400

----------------------------------------------------------------------------
(* Claims about concurrent logins, checked under SpecRace *)

AllDone == \A r \in Requests : pc[r] \in {"done", "idle"}

\* C2: once all concurrent wrong-password requests have completed, the stored
\* loginAttempts equals its initial value plus the number of failed attempts
\* (the requests that compared the password), and lockUntil is set when that
\* number has reached 5.
C2_NoLostFailure ==
    AllDone =>
        /\ users[StoredEmail].loginAttempts = init0 + failed
        /\ init0 + failed >= MaxLoginAttempts =>
              users[StoredEmail].lockUntil # NoDate

====
